---- MODULE Spec2Model ----
(***************************************************************************)
(* Model of the macro-generated typed hashmap of src/hashmap.h             *)
(* (DEFINE_HASHMAP): open addressing, Robin Hood insertion, tombstones,    *)
(* resize by reinsertion.  One table is modelled; every public operation   *)
(* is one atomic action that runs the whole C function, including the      *)
(* resize an insert triggers and the inserts a resize performs.            *)
(* The default string hash, construction, calls on a null table, the       *)
(* header's usage example and the key-owning table of src/library.h have   *)
(* specifications of their own.                                            *)
(***************************************************************************)
EXTENDS Integers, Sequences, FiniteSets, TLC

(* ---------------------------- bounds ----------------------------------- *)
\* keys are 1..MaxKey; 0 is the zeroed key (K){0} of calloc and of remove
MaxKey == 3
\* values are 1..MaxValue; 0 is the zeroed value of calloc
MaxValue == 2
\* capacities the table is constructed with: 1..MaxInitCap
MaxInitCap == 3
\* Insert is offered while count < MaxCount (caps count and so capacity)
MaxCount == 3
\* an explicit Resize is offered with new_capacity in 1..MaxNewCap
MaxNewCap == 2
\* Remove is offered while fewer than MaxTombs slots are Tombstones
MaxTombs == 1
\* an operation is run with "the n-th hashmap_NAME_new it calls returns NULL",
\* n in 1..MaxFailAt+1, or with no allocation failure
MaxFailAt == 1
\* hash_str_key is applied to the byte strings of length 0..MaxStrLen
MaxStrLen == 3
\* the specification of growth constructs capacities 1..MaxGrowCap and
\* inserts keys 1..MaxGrowKey while count < MaxGrowCount
MaxGrowCap == 4
MaxGrowKey == 4
MaxGrowCount == 4
MaxOrderCap == 5
MaxOrderHash == 4
MaxProbeCap == 7
MaxProbeLo == 8

(* ------------------------- program constants --------------------------- *)
EMPTY == 0
OCCUPIED == 1
TOMBSTONE == 2
Keys == 1..MaxKey
Values == 1..MaxValue

\* results besides 0, 1, a slot index and a value: NOTFOUND is the NULL of
\* get, DIVERGE says that the C loop never returns
NOTFOUND == 0 - 1
DIVERGE == 0 - 2
\* the call dereferenced a null pointer and the process was killed
CRASH == 0 - 3

\* the allocation budget, counted in calls of hashmap_NAME_new (its malloc
\* and calloc): -1 = every call succeeds, n >= 0 = the first n calls succeed
\* and in the next one malloc or calloc returns NULL
NoFail == -1
AllocChoices == {NoFail} \cup (0..MaxFailAt)
AllocOk(allocs, n) == allocs < 0 \/ allocs >= n
Take(allocs, n) == IF allocs < 0 THEN allocs ELSE allocs - n

\* grow_factor is a double; the factors used are exactly representable
\* ratios <<num, den>>: 2.0 and 1.5 (the header's usage example)
GrowFactors == {<<2, 1>>, <<3, 2>>}

\* a uint32_t is the pair <<h, l>> of its 16-bit halves, h * 2^16 + l
\* (2^32 is beyond the integers of TLC)
Half == 65536
U32(n) == <<n \div Half, n % Half>>

\* a uint32_t modulo a capacity
umod(w, n) == ((w[1] % n) * (Half % n) + (w[2] % n)) % n

\* the hash functions a caller may plug in.  hash_fn returns unsigned long; a
\* result is <<hi, lo>> standing for hi * 2^32 + lo, lo a uint32_t.  The three
\* functions: every key collides; the keys spread over consecutive buckets;
\* pairs of keys collide and the results do not fit 32 bits
HashFnsOn(K) ==
    { [k \in K |-> <<0, U32(1)>>],
      [k \in K |-> <<0, U32(k - 1)>>],
      [k \in K |-> <<1, U32((k + 1) \div 2)>>] }

HashFns == HashFnsOn(Keys)

VARIABLES
    entries,      \* map->entries: [0..capacity-1 -> slot]
    capacity,     \* map->capacity
    count,        \* map->count
    grow_factor,  \* map->grow_factor as <<num, den>>
    hash_fn,      \* map->hash_fn as a function of the key
    destructor,   \* map->destructor is not NULL
    cmp,          \* map->cmp_fn: "equal" or "strcmp"
    map_ptr,      \* the caller's hashmap_NAME_t *map: "NULL", "live", "freed"
    iter,         \* the caller's hashmap_NAME_iter_t: [map, index]
    released,     \* key-owning variant: key -> number of free(key) calls
    last,         \* the last operation called, its arguments and its result
    amap          \* history kept by the specifications of restricted call
                  \* sequences: key -> the value a successful Insert gave
                  \* it, 0 if none did

vars == <<entries, capacity, count, grow_factor, hash_fn, destructor, cmp,
          map_ptr, iter, released, last, amap>>

\* what the operations on the table's slots leave alone
rest == <<grow_factor, hash_fn, destructor, cmp, map_ptr, iter, released>>

(* -------------------------- default hashing ---------------------------- *)
\* the bytes of the strings hashed: none is 0, the terminator
Bytes == {1, 97, 112, 128, 255}

Strings == UNION {[1..n -> Bytes] : n \in 0..MaxStrLen}

\* bitwise XOR of two n-bit numbers
RECURSIVE xor_bits(_, _, _)
xor_bits(a, b, n) ==
    IF n = 0 THEN 0
    ELSE ((a + b) % 2) + 2 * xor_bits(a \div 2, b \div 2, n - 1)

\* 2166136261u = 0x811C9DC5 and 16777619u = 0x01000193 in 16-bit halves
FNVOffset == <<33052, 40389>>
FNVPrime == <<256, 403>>

\* hash ^= (uint8_t)key[i]
uxor8(w, byte) == <<w[1], xor_bits(w[2], byte, 16)>>

\* hash *= b in uint32_t arithmetic: the product modulo 2^32
umul(a, b) ==
    LET lo == a[2] * b[2]
    IN  <<(a[1] * b[2] + a[2] * b[1] + (lo \div Half)) % Half, lo % Half>>

RECURSIVE hash_str_loop(_, _, _), hash_str_loop_fnv1(_, _, _)

\* the loop that multiplies before it mixes the byte in (FNV-1)
hash_str_loop_fnv1(key, i, hash) ==
    IF i > Len(key) THEN hash
    ELSE hash_str_loop_fnv1(key, i + 1, uxor8(umul(hash, FNVPrime), key[i]))

\* for (size_t i = 0; key[i]; i++): key is the string without its
\* terminator, i counts from 1
hash_str_loop(key, i, hash) ==
    IF i > Len(key) THEN hash
    ELSE hash_str_loop(key, i + 1, umul(uxor8(hash, key[i]), FNVPrime))

hash_str_key(key) == hash_str_loop(key, 1, FNVOffset)

(* ------------------------------ slots ---------------------------------- *)
\* calloc'ed slot
ZeroEntry == [key |-> 0, value |-> 0, status |-> EMPTY, hash |-> U32(0)]

calloc_entries(cap) == [i \in 0..(cap - 1) |-> ZeroEntry]

\* const uint32_t hash = map->hash_fn(key);
hash32(key) == hash_fn[key][2]

\* the string a key of a string-keyed table points to: key 1 is "apple",
\* key k > 1 is k times the letter after the k-th
Apple == 1
Str(k) ==
    IF k = Apple THEN <<97, 112, 112, 108, 101>> ELSE [i \in 1..k |-> 97 + k]

\* strcmp(a, b) from byte i on: -1, 0 or 1 for negative, zero, positive
RECURSIVE strcmp_from(_, _, _)
strcmp_from(a, b, i) ==
    LET ca == IF i > Len(a) THEN 0 ELSE a[i]
        cb == IF i > Len(b) THEN 0 ELSE b[i]
    IN  IF ca # cb THEN (IF ca < cb THEN 0 - 1 ELSE 1)
        ELSE IF ca = 0 THEN 0
        ELSE strcmp_from(a, b, i + 1)

strcmp(a, b) == strcmp_from(a, b, 1)

\* map->cmp_fn(a, b) as the scans use it, for its truth value: the caller's
\* comparator that returns non-zero for equal keys, or strcmp
cmp_fn(a, b) ==
    IF cmp = "strcmp" THEN strcmp(Str(a), Str(b)) # 0 ELSE a = b

\* the distance between index and the ideal index without the wrap-around
hash_probe_distance_abs(hash, index, cap) ==
    IF index >= umod(hash, cap) THEN index - umod(hash, cap)
    ELSE umod(hash, cap) - index

hash_probe_distance(hash, index, cap) ==
    (index + cap - umod(hash, cap)) % cap

\* the hashmap struct fields the algorithms read and write
Map(e, cap, cnt) == [entries |-> e, capacity |-> cap, count |-> cnt]

ThisMap == Map(entries, capacity, count)

tombs(e) == Cardinality({i \in DOMAIN e : e[i].status = TOMBSTONE})

(* ---------------------------- construction ----------------------------- *)
\* init whose slot array comes from malloc and is not cleared: every slot
\* holds what the memory held, here an Occupied slot image
hashmap_init_malloc(cap, calloc_ok) ==
    IF ~calloc_ok THEN [ret |-> 0, map |-> Map(<<>>, 0, 0)]
    ELSE [ret |-> 1,
          map |-> Map([i \in 0..(cap - 1) |->
                          [key |-> 1, value |-> 1, status |-> OCCUPIED,
                           hash |-> U32(0)]], cap, 0)]

\* hashmap_NAME_init on a non-null struct: [ret, map]; calloc_ok says whether
\* calloc returns memory
hashmap_init(cap, calloc_ok) ==
    IF ~calloc_ok THEN [ret |-> 0, map |-> Map(<<>>, 0, 0)]
    ELSE [ret |-> 1, map |-> Map(calloc_entries(cap), cap, 0)]

\* hashmap_NAME_new: [ptr, map]; ptr "NULL" when malloc or init fails
hashmap_new(cap, malloc_ok, calloc_ok) ==
    IF ~malloc_ok THEN [ptr |-> "NULL", map |-> Map(<<>>, 0, 0)]
    ELSE LET r == hashmap_init(cap, calloc_ok)
         IN  IF r.ret = 0 THEN [ptr |-> "NULL", map |-> Map(<<>>, 0, 0)]
             ELSE [ptr |-> "live", map |-> r.map]

(* ------------------------------- get ----------------------------------- *)
\* the scan loop of get and remove from slot index, having already visited
\* steps slots: the index of the matching slot, NOTFOUND at an Empty slot,
\* DIVERGE when every slot was visited without a match and without an Empty
\* slot (the table does not change during the scan, so the loop never ends)
RECURSIVE probe(_, _, _, _, _), probe_tomb(_, _, _, _, _)

\* the scan that takes a Tombstone for the end of the probe chain
probe_tomb(m, hash, key, index, steps) ==
    IF steps >= m.capacity THEN DIVERGE
    ELSE IF m.entries[index].status # OCCUPIED THEN NOTFOUND
    ELSE IF /\ m.entries[index].hash = hash
            /\ cmp_fn(m.entries[index].key, key)
         THEN index
    ELSE probe_tomb(m, hash, key, (index + 1) % m.capacity, steps + 1)

probe(m, hash, key, index, steps) ==
    IF steps >= m.capacity THEN DIVERGE
    ELSE IF m.entries[index].status = EMPTY THEN NOTFOUND
    ELSE IF /\ m.entries[index].status = OCCUPIED
            /\ m.entries[index].hash = hash
            /\ cmp_fn(m.entries[index].key, key)
         THEN index
    ELSE probe(m, hash, key, (index + 1) % m.capacity, steps + 1)

find(m, key) ==
    probe(m, hash32(key), key, umod(hash32(key), m.capacity), 0)

\* hashmap_NAME_get: the value pointed to by the result, NOTFOUND for NULL
get(m, key) ==
    LET at == find(m, key)
    IN  IF at \in {DIVERGE, NOTFOUND} THEN at ELSE m.entries[at].value

(* ------------------------------ remove --------------------------------- *)
\* remove that forgets map->count--
remove_nodec(m, key) ==
    LET at == find(m, key)
    IN  IF at = DIVERGE THEN [ret |-> DIVERGE, map |-> m]
        ELSE IF at = NOTFOUND THEN [ret |-> 0, map |-> m]
        ELSE [ret |-> 1,
              map |-> Map([m.entries EXCEPT ![at].key = 0,
                                            ![at].status = TOMBSTONE],
                          m.capacity, m.count)]

\* remove that decrements count before it scans for the key
remove_early(m, key) ==
    LET at == find(m, key)
    IN  IF at = DIVERGE THEN [ret |-> DIVERGE, map |-> m]
        ELSE IF at = NOTFOUND
        THEN [ret |-> 0, map |-> Map(m.entries, m.capacity, m.count - 1)]
        ELSE [ret |-> 1,
              map |-> Map([m.entries EXCEPT ![at].key = 0,
                                            ![at].status = TOMBSTONE],
                          m.capacity, m.count - 1)]

\* remove that marks the slot Empty
remove_empty(m, key) ==
    LET at == find(m, key)
    IN  IF at = DIVERGE THEN [ret |-> DIVERGE, map |-> m]
        ELSE IF at = NOTFOUND THEN [ret |-> 0, map |-> m]
        ELSE [ret |-> 1,
              map |-> Map([m.entries EXCEPT ![at].key = 0,
                                            ![at].status = EMPTY],
                          m.capacity, m.count - 1)]

\* hashmap_NAME_remove: [ret, map]
remove(m, key) ==
    LET at == find(m, key)
    IN  IF at = DIVERGE THEN [ret |-> DIVERGE, map |-> m]
        ELSE IF at = NOTFOUND THEN [ret |-> 0, map |-> m]
        ELSE [ret |-> 1,
              map |-> Map([m.entries EXCEPT ![at].key = 0,
                                            ![at].status = TOMBSTONE],
                          m.capacity, m.count - 1)]

(* ------------------------- insert and resize --------------------------- *)
\* map->count + 1 > map->capacity * 0.9 (no capacity of the model is a
\* multiple of 10 whose product with 0.9 rounds away from the exact value)
\* the check made on the count the table has after the insert's predecessor
over_load_post(cnt, cap) == 10 * cnt > 9 * cap

over_load(cnt, cap) == 10 * (cnt + 1) > 9 * cap

\* (size_t)(map->capacity * map->grow_factor)
grown(cap) == (cap * grow_factor[1]) \div grow_factor[2]

\* a walk that overwrites the entry it takes the slot from instead of
\* carrying it on
RECURSIVE walk_drop(_, _, _, _, _)
walk_drop(e, cap, index, dist, new_entry) ==
    IF e[index].status = EMPTY \/ e[index].status = TOMBSTONE
    THEN [e EXCEPT ![index] = new_entry]
    ELSE LET existing_dist == hash_probe_distance(e[index].hash, index, cap)
         IN  IF dist > existing_dist
             THEN [e EXCEPT ![index] = new_entry]
             ELSE walk_drop(e, cap, (index + 1) % cap, dist + 1, new_entry)

\* a walk whose swap carries the displaced key and value on with the hash
\* of the entry that took their slot
RECURSIVE walk_mix(_, _, _, _, _)
walk_mix(e, cap, index, dist, new_entry) ==
    IF e[index].status = EMPTY \/ e[index].status = TOMBSTONE
    THEN [e EXCEPT ![index] = new_entry]
    ELSE LET existing_dist == hash_probe_distance(e[index].hash, index, cap)
         IN  IF dist > existing_dist
             THEN walk_mix([e EXCEPT ![index] = new_entry], cap,
                           (index + 1) % cap, existing_dist + 1,
                           [e[index] EXCEPT !.hash = new_entry.hash])
             ELSE walk_mix(e, cap, (index + 1) % cap, dist + 1, new_entry)

\* plain linear probing: a walk that never swaps
RECURSIVE walk_linear(_, _, _, _, _)
walk_linear(e, cap, index, dist, new_entry) ==
    IF e[index].status = EMPTY \/ e[index].status = TOMBSTONE
    THEN [e EXCEPT ![index] = new_entry]
    ELSE walk_linear(e, cap, (index + 1) % cap, dist + 1, new_entry)

\* a walk whose swap carries the displaced entry on with probe distance 0
RECURSIVE walk_reset(_, _, _, _, _)
walk_reset(e, cap, index, dist, new_entry) ==
    IF e[index].status = EMPTY \/ e[index].status = TOMBSTONE
    THEN [e EXCEPT ![index] = new_entry]
    ELSE LET existing_dist == hash_probe_distance(e[index].hash, index, cap)
         IN  IF dist > existing_dist
             THEN walk_reset([e EXCEPT ![index] = new_entry], cap,
                             (index + 1) % cap, 0, e[index])
             ELSE walk_reset(e, cap, (index + 1) % cap, dist + 1, new_entry)

\* a walk that passes the Tombstones and stops at an Empty slot while the
\* table has one
RECURSIVE walk_empty(_, _, _, _, _)
walk_empty(e, cap, index, dist, new_entry) ==
    IF \/ e[index].status = EMPTY
       \/ /\ e[index].status = TOMBSTONE
          /\ \A j \in DOMAIN e : e[j].status # EMPTY
    THEN [e EXCEPT ![index] = new_entry]
    ELSE IF e[index].status = TOMBSTONE
    THEN walk_empty(e, cap, (index + 1) % cap, dist + 1, new_entry)
    ELSE LET existing_dist == hash_probe_distance(e[index].hash, index, cap)
         IN  IF dist > existing_dist
             THEN walk_empty([e EXCEPT ![index] = new_entry], cap,
                             (index + 1) % cap, existing_dist + 1, e[index])
             ELSE walk_empty(e, cap, (index + 1) % cap, dist + 1, new_entry)

\* a walk that probes towards the lower indices
RECURSIVE walk_back(_, _, _, _, _)
walk_back(e, cap, index, dist, new_entry) ==
    IF e[index].status = EMPTY \/ e[index].status = TOMBSTONE
    THEN [e EXCEPT ![index] = new_entry]
    ELSE walk_back(e, cap, (index + cap - 1) % cap, dist + 1, new_entry)

\* the Robin Hood walk of insert: the slot array after the walk; only
\* called when some slot is Empty or Tombstone
RECURSIVE walk(_, _, _, _, _)
walk(e, cap, index, dist, new_entry) ==
    IF e[index].status = EMPTY \/ e[index].status = TOMBSTONE
    THEN [e EXCEPT ![index] = new_entry]
    ELSE LET existing_dist == hash_probe_distance(e[index].hash, index, cap)
         IN  IF dist > existing_dist
             THEN walk([e EXCEPT ![index] = new_entry], cap,
                       (index + 1) % cap, existing_dist + 1, e[index])
             ELSE walk(e, cap, (index + 1) % cap, dist + 1, new_entry)

\* the walk's only exit is an Empty or Tombstone slot, and swaps never
\* change a slot's status
walk_exits(e, cap) == \E i \in 0..(cap - 1) : e[i].status # OCCUPIED

\* hashmap_NAME_new: malloc of the struct, then calloc of the slots in init
new_ok(allocs) == AllocOk(allocs, 1)

\* insert, resize and resize's loop return
\*   [ret, map, allocs, dtor, resized]
\* ret: 1, 0 or DIVERGE; map: the table after the call; allocs: the budget
\* left; dtor: the number of destructor calls made; resized: a resize of
\* this very table succeeded
Ret(r, m, allocs, dtor, rs) ==
    [ret |-> r, map |-> m, allocs |-> allocs, dtor |-> dtor, resized |-> rs]

\* the destructor calls of one hashmap_NAME_free: if (map->destructor)
free_dtor == IF destructor THEN 1 ELSE 0

\* F applied to the value of x (x is evaluated once)
Once(F(_), x) == CHOOSE y \in {F(v) : v \in {x}} : TRUE

RECURSIVE insert(_, _, _, _), resize(_, _, _), reinsert(_, _, _, _, _)
RECURSIVE reinsert_once(_, _, _, _, _)

\* insert that counts only an entry placed in an Empty slot
insert_tomb(m, key, value, allocs) ==
    LET hash == hash32(key)
        new_entry == [key |-> key, value |-> value,
                      status |-> OCCUPIED, hash |-> hash]
        placed(r, e) ==
            Ret(1, Map(e, r.map.capacity,
                       IF tombs(e) < tombs(r.map.entries)
                       THEN r.map.count ELSE r.map.count + 1),
                r.allocs, r.dtor, r.resized)
        place(r) ==
            IF r.ret # 1 THEN r
            ELSE IF ~walk_exits(r.map.entries, r.map.capacity)
            THEN Ret(DIVERGE, r.map, r.allocs, r.dtor, r.resized)
            ELSE placed(r, walk(r.map.entries, r.map.capacity,
                                umod(hash, r.map.capacity), 0, new_entry))
    IN  IF over_load(m.count, m.capacity)
        THEN Once(place, resize(m, grown(m.capacity), allocs))
        ELSE place(Ret(1, m, allocs, 0, FALSE))

\* insert that looks the key up first and overwrites the value of the slot
\* that holds it
insert_upsert(m, key, value, allocs) ==
    LET hash == hash32(key)
        new_entry == [key |-> key, value |-> value,
                      status |-> OCCUPIED, hash |-> hash]
        at == find(m, key)
        place(r) ==
            IF r.ret # 1 THEN r
            ELSE IF ~walk_exits(r.map.entries, r.map.capacity)
            THEN Ret(DIVERGE, r.map, r.allocs, r.dtor, r.resized)
            ELSE Ret(1,
                     Map(walk(r.map.entries, r.map.capacity,
                              umod(hash, r.map.capacity), 0, new_entry),
                         r.map.capacity, r.map.count + 1),
                     r.allocs, r.dtor, r.resized)
    IN  IF at # NOTFOUND /\ at # DIVERGE
        THEN Ret(1, Map([m.entries EXCEPT ![at].value = value],
                        m.capacity, m.count), allocs, 0, FALSE)
        ELSE IF over_load(m.count, m.capacity)
        THEN Once(place, resize(m, grown(m.capacity), allocs))
        ELSE place(Ret(1, m, allocs, 0, FALSE))

\* the reinsertion loop that also copies a Tombstone to the new table, to
\* the slot of its index modulo the new capacity when that slot is Empty
RECURSIVE reinsert_tombs(_, _, _, _, _)
reinsert_tombs(m, new_map, i, allocs, dtor) ==
    IF i >= m.capacity THEN Ret(1, new_map, allocs, dtor, FALSE)
    ELSE IF m.entries[i].status = EMPTY
    THEN reinsert_tombs(m, new_map, i + 1, allocs, dtor)
    ELSE IF m.entries[i].status = TOMBSTONE
    THEN LET j == i % new_map.capacity
         IN  reinsert_tombs(
                 m,
                 IF new_map.entries[j].status = EMPTY
                 THEN Map([new_map.entries EXCEPT ![j] = m.entries[i]],
                          new_map.capacity, new_map.count)
                 ELSE new_map,
                 i + 1, allocs, dtor)
    ELSE LET step(r) ==
                 IF r.ret = DIVERGE
                 THEN Ret(DIVERGE, new_map, r.allocs, dtor + r.dtor, FALSE)
                 ELSE IF r.ret = 0
                 THEN Ret(0, new_map, r.allocs, dtor + r.dtor + free_dtor,
                          FALSE)
                 ELSE reinsert_tombs(m, r.map, i + 1, r.allocs,
                                     dtor + r.dtor)
         IN  Once(step, insert(new_map, m.entries[i].key,
                               m.entries[i].value, allocs))

\* the reinsertion loop that returns after the first entry it reinserts
reinsert_once(m, new_map, i, allocs, dtor) ==
    IF i >= m.capacity THEN Ret(1, new_map, allocs, dtor, FALSE)
    ELSE IF m.entries[i].status # OCCUPIED
    THEN reinsert_once(m, new_map, i + 1, allocs, dtor)
    ELSE LET step(r) ==
                 IF r.ret = DIVERGE
                 THEN Ret(DIVERGE, new_map, r.allocs, dtor + r.dtor, FALSE)
                 ELSE IF r.ret = 0
                 THEN Ret(0, new_map, r.allocs, dtor + r.dtor + free_dtor,
                          FALSE)
                 ELSE Ret(1, r.map, r.allocs, dtor + r.dtor, FALSE)
         IN  Once(step, insert(new_map, m.entries[i].key,
                               m.entries[i].value, allocs))

insert(m, key, value, allocs) ==
    LET hash == hash32(key)
        new_entry == [key |-> key, value |-> value,
                      status |-> OCCUPIED, hash |-> hash]
        \* r: the outcome of the capacity check
        place(r) ==
            IF r.ret # 1 THEN r
            ELSE IF ~walk_exits(r.map.entries, r.map.capacity)
            THEN Ret(DIVERGE, r.map, r.allocs, r.dtor, r.resized)
            ELSE Ret(1,
                     Map(walk(r.map.entries, r.map.capacity,
                              umod(hash, r.map.capacity), 0, new_entry),
                         r.map.capacity, r.map.count + 1),
                     r.allocs, r.dtor, r.resized)
    IN  IF over_load(m.count, m.capacity)
        THEN Once(place, resize(m, grown(m.capacity), allocs))
        ELSE place(Ret(1, m, allocs, 0, FALSE))

\* the for loop of resize from slot i of the old table m on
reinsert(m, new_map, i, allocs, dtor) ==
    IF i >= m.capacity THEN Ret(1, new_map, allocs, dtor, FALSE)
    ELSE IF m.entries[i].status # OCCUPIED
    THEN reinsert(m, new_map, i + 1, allocs, dtor)
    ELSE LET \* r: the outcome of the insert into new_map
             step(r) ==
                 IF r.ret = DIVERGE
                 THEN Ret(DIVERGE, new_map, r.allocs, dtor + r.dtor, FALSE)
                 ELSE IF r.ret = 0
                 \* hashmap_NAME_free(new_map) runs the destructor
                 THEN Ret(0, new_map, r.allocs, dtor + r.dtor + free_dtor,
                          FALSE)
                 ELSE reinsert(m, r.map, i + 1, r.allocs, dtor + r.dtor)
         IN  Once(step, insert(new_map, m.entries[i].key,
                               m.entries[i].value, allocs))

\* resize that adopts the partially built table when a reinsertion fails
resize_partial(m, new_capacity, allocs) ==
    LET adopt(r) ==
            IF r.ret = DIVERGE THEN Ret(r.ret, m, r.allocs, r.dtor, FALSE)
            ELSE Ret(r.ret, r.map, r.allocs, r.dtor, r.ret = 1)
    IN  IF ~new_ok(allocs) THEN Ret(0, m, 0, 0, FALSE)
        ELSE Once(adopt, reinsert(m, Map(calloc_entries(new_capacity),
                                         new_capacity, 0),
                                  0, Take(allocs, 1), 0))

\* resize that never allocates fewer slots than the table has
resize_noshrink(m, new_capacity, allocs) ==
    LET cap == IF new_capacity < m.capacity THEN m.capacity
               ELSE new_capacity
        adopt(r) ==
            IF r.ret # 1 THEN Ret(r.ret, m, r.allocs, r.dtor, FALSE)
            ELSE Ret(1, r.map, r.allocs, r.dtor, TRUE)
    IN  IF ~new_ok(allocs) THEN Ret(0, m, 0, 0, FALSE)
        ELSE Once(adopt, reinsert(m, Map(calloc_entries(cap), cap, 0),
                                  0, Take(allocs, 1), 0))

resize(m, new_capacity, allocs) ==
    LET \* r: the outcome of the reinsertion loop
        adopt(r) ==
            IF r.ret # 1 THEN Ret(r.ret, m, r.allocs, r.dtor, FALSE)
            ELSE Ret(1, r.map, r.allocs, r.dtor, TRUE)
    IN  IF ~new_ok(allocs) THEN Ret(0, m, 0, 0, FALSE)
        ELSE Once(adopt, reinsert(m, Map(calloc_entries(new_capacity),
                                         new_capacity, 0),
                                  0, Take(allocs, 1), 0))

(* ----------------------------- iterator -------------------------------- *)
\* hashmap_NAME_iter_begin(map); seen is history: the slot indices that
\* iter_next has returned to this iterator, in the order of the calls
iter_begin(mp) == [map |-> mp, index |-> 0, seen |-> <<>>]

RECURSIVE iter_scan(_, _), iter_scan_tomb(_, _)

\* the loop of iter_next that rewinds the cursor when it reaches the end
RECURSIVE iter_scan_rewind(_, _)
iter_scan_rewind(m, index) ==
    IF index >= m.capacity THEN [ret |-> NOTFOUND, index |-> 0]
    ELSE IF m.entries[index].status = OCCUPIED
    THEN [ret |-> index, index |-> index + 1]
    ELSE iter_scan_rewind(m, index + 1)

\* the loop of iter_next that takes a Tombstone for the end of the table
iter_scan_tomb(m, index) ==
    IF index >= m.capacity THEN [ret |-> NOTFOUND, index |-> index]
    ELSE IF m.entries[index].status = OCCUPIED
    THEN [ret |-> index, index |-> index + 1]
    ELSE IF m.entries[index].status = TOMBSTONE
    THEN [ret |-> NOTFOUND, index |-> index + 1]
    ELSE iter_scan_tomb(m, index + 1)

\* the loop of iter_next from iter->index on: the slot index of the entry
\* returned (NOTFOUND for NULL) and iter->index after the call
iter_scan(m, index) ==
    IF index >= m.capacity THEN [ret |-> NOTFOUND, index |-> index]
    ELSE IF m.entries[index].status = OCCUPIED
    THEN [ret |-> index, index |-> index + 1]
    ELSE iter_scan(m, index + 1)

\* hashmap_NAME_iter_next(&it) on the table m that it.map points to
iter_next(it, m) ==
    IF it.map = "NULL" THEN [ret |-> NOTFOUND, index |-> it.index]
    ELSE iter_scan(m, it.index)

(* ------------------------------ actions -------------------------------- *)
\* a call that never returns leaves the program stuck in it
running == map_ptr = "live" /\ last.ret # DIVERGE

\* the record of the last call: the operation, its arguments, its result,
\* count, capacity and the number of Tombstones before the call, whether
\* the call replaced the slot array by a resize, and the number of
\* destructor calls it made
Last(op, key, value, new_capacity, ret, pre, rs, dtor) ==
    [op |-> op, key |-> key, value |-> value, new_capacity |-> new_capacity,
     ret |-> ret, precount |-> pre.count, precap |-> pre.capacity,
     pretombs |-> tombs(pre.entries), resized |-> rs, dtor |-> dtor]

\* no iterator has been made
NoIter == [map |-> "none", index |-> 0, seen |-> <<>>]

\* hashmap_NAME_new(capacity, grow_factor, destructor, hash_fn, cmp_fn)
Init ==
    /\ capacity \in 1..MaxInitCap
    /\ entries = calloc_entries(capacity)
    /\ count = 0
    /\ grow_factor \in GrowFactors
    /\ hash_fn \in HashFns
    /\ destructor = TRUE
    /\ cmp = "equal"
    /\ map_ptr = "live"
    /\ iter = NoIter
    /\ released = [k \in Keys |-> 0]
    /\ last = Last("new", 0, 0, 0, 1, Map(entries, capacity, 0), FALSE, 0)
    /\ amap = [k \in Keys |-> 0]

Adopt(m) ==
    /\ entries' = m.entries
    /\ capacity' = m.capacity
    /\ count' = m.count

\* the call hashmap_NAME_insert(map, key, value) with allocation budget allocs
InsertStep(key, value, allocs) ==
    /\ running
    /\ \E r \in {insert(ThisMap, key, value, allocs)} :
           /\ Adopt(r.map)
           /\ last' = Last("insert", key, value, 0, r.ret, ThisMap, r.resized,
                           r.dtor)
    /\ UNCHANGED rest

InsertCall(key, value, allocs) ==
    /\ count < MaxCount
    /\ InsertStep(key, value, allocs)

Insert(key, value, allocs) ==
    /\ InsertCall(key, value, allocs)
    /\ UNCHANGED amap

Get(key) ==
    /\ running
    /\ last' = Last("get", key, 0, 0, get(ThisMap, key), ThisMap, FALSE, 0)
    /\ UNCHANGED <<entries, capacity, count, amap, rest>>

Remove(key) ==
    /\ running
    /\ tombs(entries) < MaxTombs
    /\ \E r \in {remove(ThisMap, key)} :
           /\ Adopt(r.map)
           /\ last' = Last("remove", key, 0, 0, r.ret, ThisMap, FALSE, 0)
    /\ UNCHANGED <<amap, rest>>

Resize(new_capacity, allocs) ==
    /\ running
    /\ \E r \in {resize(ThisMap, new_capacity, allocs)} :
           /\ Adopt(r.map)
           /\ last' = Last("resize", 0, 0, new_capacity, r.ret, ThisMap,
                           r.resized, r.dtor)
    /\ UNCHANGED <<amap, rest>>

\* hashmap_NAME_free(map): the destructor call, free(map->entries), free(map).
\* The freed struct and slots stay in the variables as the dangling pointer's
\* target; no operation is called on a freed table.
Free ==
    /\ running
    /\ map_ptr' = "freed"
    /\ last' = Last("free", 0, 0, 0, 1, ThisMap, FALSE, free_dtor)
    /\ UNCHANGED <<entries, capacity, count, grow_factor, hash_fn, destructor,
                   cmp, iter, released, amap>>

\* it = hashmap_NAME_iter_begin(map)
IterBegin ==
    /\ (map_ptr = "NULL" /\ last.ret # CRASH) \/ running
    /\ iter' = iter_begin(map_ptr)
    /\ last' = Last("iter_begin", 0, 0, 0, 1, ThisMap, FALSE, 0)
    /\ UNCHANGED <<entries, capacity, count, grow_factor, hash_fn, destructor,
                   cmp, map_ptr, released, amap>>

\* hashmap_NAME_iter_next(&it)
IterNext ==
    /\ (iter.map = "NULL" /\ last.ret # CRASH)
           \/ (iter.map = "live" /\ running)
    /\ \E r \in {iter_next(iter, ThisMap)} :
           /\ iter' = [iter EXCEPT !.index = r.index,
                                   !.seen = IF r.ret = NOTFOUND THEN @
                                            ELSE Append(@, r.ret)]
           /\ last' = Last("iter_next", 0, 0, 0, r.ret, ThisMap, FALSE, 0)
    /\ UNCHANGED <<entries, capacity, count, grow_factor, hash_fn, destructor,
                   cmp, map_ptr, released, amap>>

\* an Insert that does not resize allocates nothing
InsertAllocChoices ==
    IF over_load(count, capacity) THEN AllocChoices ELSE {NoFail}

Next ==
    \/ \E k \in Keys, v \in Values, a \in InsertAllocChoices : Insert(k, v, a)
    \/ \E k \in Keys : Get(k)
    \/ \E k \in Keys : Remove(k)
    \/ \E n \in 1..MaxNewCap, a \in AllocChoices : Resize(n, a)
    \/ Free

Spec == Init /\ [][Next]_vars

(* --------------- inserts of pairwise distinct keys only ---------------- *)
\* Insert of a key that no earlier Insert has added; amap records the value
InsertFresh(key, value, allocs) ==
    /\ amap[key] = 0
    /\ InsertCall(key, value, allocs)
    /\ amap' = IF last'.ret = 1 THEN [amap EXCEPT ![key] = value] ELSE amap

NextFresh ==
    \E k \in Keys, v \in Values, a \in InsertAllocChoices : InsertFresh(k, v, a)

SpecFresh == Init /\ [][NextFresh]_vars

(* ------- inserts of absent keys and removes, with the abstract map ----- *)
\* Remove that also removes the key from the abstract map
RemoveMap(key) ==
    /\ running
    /\ tombs(entries) < MaxTombs
    /\ \E r \in {remove(ThisMap, key)} :
           /\ Adopt(r.map)
           /\ last' = Last("remove", key, 0, 0, r.ret, ThisMap, FALSE, 0)
           /\ amap' = IF r.ret = 1 THEN [amap EXCEPT ![key] = 0] ELSE amap
    /\ UNCHANGED rest

\* InsertFresh adds a key the abstract map does not hold: one never
\* inserted, or one removed since
NextMap ==
    \/ \E k \in Keys, v \in Values, a \in InsertAllocChoices :
           InsertFresh(k, v, a)
    \/ \E k \in Keys : RemoveMap(k)
    \/ \E k \in Keys : Get(k)

SpecMap == Init /\ [][NextMap]_vars

(* ------------- growth under inserts of distinct keys ------------------- *)
GrowKeys == 1..MaxGrowKey

InitGrow ==
    /\ capacity \in 1..MaxGrowCap
    /\ entries = calloc_entries(capacity)
    /\ count = 0
    /\ grow_factor \in GrowFactors
    /\ hash_fn \in HashFnsOn(GrowKeys)
    /\ destructor = TRUE
    /\ cmp = "equal"
    /\ map_ptr = "live"
    /\ iter = NoIter
    /\ released = [k \in Keys |-> 0]
    /\ last = Last("new", 0, 0, 0, 1, Map(entries, capacity, 0), FALSE, 0)
    /\ amap = [k \in GrowKeys |-> 0]

InsertGrow(key, value, allocs) ==
    /\ amap[key] = 0
    /\ count < MaxGrowCount
    /\ InsertStep(key, value, allocs)
    /\ amap' = IF last'.ret = 1 THEN [amap EXCEPT ![key] = value] ELSE amap

\* the value is a function of the key: growth does not depend on it
NextGrow ==
    \E k \in GrowKeys, a \in InsertAllocChoices :
        InsertGrow(k, 1 + (k % MaxValue), a)

SpecGrow == InitGrow /\ [][NextGrow]_vars

(* ---- inserts of distinct keys in every order, without any resize ------ *)
\* every hash function from the keys to 0..MaxOrderHash
OrderHashFns ==
    {[k \in GrowKeys |-> <<0, U32(f[k])>>] :
        f \in [GrowKeys -> 0..MaxOrderHash]}

\* no step of this specification resizes: grow_factor is never read
InitOrder ==
    /\ capacity \in 1..MaxOrderCap
    /\ entries = calloc_entries(capacity)
    /\ count = 0
    /\ grow_factor = <<2, 1>>
    /\ hash_fn \in OrderHashFns
    /\ destructor = TRUE
    /\ cmp = "equal"
    /\ map_ptr = "live"
    /\ iter = NoIter
    /\ released = [k \in Keys |-> 0]
    /\ last = Last("new", 0, 0, 0, 1, Map(entries, capacity, 0), FALSE, 0)
    /\ amap = [k \in GrowKeys |-> 0]

\* Insert of a key not inserted before into a table that takes it without
\* a resize
InsertOrder(key, value) ==
    /\ amap[key] = 0
    /\ ~over_load(count, capacity)
    /\ InsertStep(key, value, NoFail)
    /\ amap' = IF last'.ret = 1 THEN [amap EXCEPT ![key] = value] ELSE amap

NextOrder == \E k \in GrowKeys : InsertOrder(k, 1 + (k % MaxValue))

SpecOrder == InitOrder /\ [][NextOrder]_vars

(* ---- inserts only, with the resizes they trigger, every hash_fn -------- *)
InitInserts ==
    /\ capacity \in 1..MaxOrderCap
    /\ entries = calloc_entries(capacity)
    /\ count = 0
    /\ grow_factor \in GrowFactors
    /\ hash_fn \in OrderHashFns
    /\ destructor = TRUE
    /\ cmp = "equal"
    /\ map_ptr = "live"
    /\ iter = NoIter
    /\ released = [k \in Keys |-> 0]
    /\ last = Last("new", 0, 0, 0, 1, Map(entries, capacity, 0), FALSE, 0)
    /\ amap = [k \in GrowKeys |-> 0]

\* keys of equal hash stand for the Inserts of an equal key: the walk of
\* insert never compares keys
NextInserts ==
    \E k \in GrowKeys, a \in InsertAllocChoices :
        InsertGrow(k, 1 + (k % MaxValue), a)

SpecInserts == InitInserts /\ [][NextInserts]_vars

(* ------------- hashmap_free, statement by statement -------------------- *)
\* free that releases the slot array before it calls the destructor
free_step_late(pos, dtor) ==
    IF pos = "live" THEN "entries_freed"
    ELSE IF pos = "entries_freed"
    THEN (IF dtor THEN "destructor" ELSE "freed")
    ELSE "freed"

\* the position hashmap_NAME_free(map) reaches by its next statement:
\* "destructor" is inside map->destructor(map), "entries_freed" after
\* free(map->entries), "freed" after free(map)
free_step(pos, dtor) ==
    IF pos = "live" THEN (IF dtor THEN "destructor" ELSE "entries_freed")
    ELSE IF pos = "destructor" THEN "entries_freed"
    ELSE "freed"

\* a table with or without a destructor
InitDestroy ==
    /\ capacity \in 1..MaxInitCap
    /\ entries = calloc_entries(capacity)
    /\ count = 0
    /\ grow_factor \in GrowFactors
    /\ hash_fn \in HashFns
    /\ destructor \in BOOLEAN
    /\ cmp = "equal"
    /\ map_ptr = "live"
    /\ iter = NoIter
    /\ released = [k \in Keys |-> 0]
    /\ last = Last("new", 0, 0, 0, 1, Map(entries, capacity, 0), FALSE, 0)
    /\ amap = [k \in Keys |-> 0]

\* one statement of hashmap_NAME_free(map); the released slot array is gone
FreeStep ==
    /\ map_ptr \in {"live", "destructor", "entries_freed"}
    /\ last.ret # DIVERGE
    /\ map_ptr' = free_step(map_ptr, destructor)
    /\ entries' = IF map_ptr' = "entries_freed" THEN <<>> ELSE entries
    /\ last' = Last("free", 0, 0, 0, 1, ThisMap, FALSE,
                    IF map_ptr' = "destructor" THEN 1 ELSE 0)
    /\ UNCHANGED <<capacity, count, grow_factor, hash_fn, destructor, cmp,
                   iter, released, amap>>

NextDestroy ==
    \/ \E k \in Keys, v \in Values, a \in InsertAllocChoices :
           InsertFresh(k, v, a)
    \/ \E k \in Keys : RemoveMap(k)
    \/ FreeStep

SpecDestroy == InitDestroy /\ [][NextDestroy]_vars

(* ------------- iteration over a table that is left alone --------------- *)
\* the table is built by Insert and Remove, then iterated without mutation
NextIter ==
    \/ /\ iter = NoIter
       /\ \/ \E k \in Keys, v \in Values, a \in InsertAllocChoices :
                 Insert(k, v, a)
          \/ \E k \in Keys : Remove(k)
    \/ IterBegin
    \/ IterNext

SpecIter == Init /\ [][NextIter]_vars

(* ---------------- the usage example of the header --------------------- *)
\* hashmap_string_int_new(16, 1.5, NULL, NULL, strcmp): hash_fn NULL makes
\* init store hash_str_key cast to the unsigned long function type; the
\* upper half of what a call through that type returns is not defined
ExampleCap == 16
ExampleValue == 42

InitExample ==
    /\ capacity = ExampleCap
    /\ entries = calloc_entries(capacity)
    /\ count = 0
    /\ grow_factor = <<3, 2>>
    /\ hash_fn \in {[k \in Keys |-> <<hi, hash_str_key(Str(k))>>] :
                       hi \in {0, 1}}
    /\ destructor = FALSE
    /\ cmp = "strcmp"
    /\ map_ptr = "live"
    /\ iter = NoIter
    /\ released = [k \in Keys |-> 0]
    /\ last = Last("new", 0, 0, 0, 1, Map(entries, capacity, 0), FALSE, 0)
    /\ amap = [k \in Keys |-> 0]

NextExample ==
    \/ \E k \in Keys, v \in Values \cup {ExampleValue} :
           InsertFresh(k, v, NoFail)
    \/ \E k \in Keys : Get(k)
    \/ Free

SpecExample == InitExample /\ [][NextExample]_vars

(* ------------- construction and calls on a null table ------------------ *)
\* no table has been constructed
NoTable ==
    /\ entries = <<>>
    /\ capacity = 0
    /\ count = 0
    /\ grow_factor = <<1, 1>>
    /\ hash_fn = [k \in Keys |-> <<0, U32(0)>>]
    /\ destructor = FALSE
    /\ cmp = "equal"
    /\ map_ptr = "NULL"
    /\ iter = NoIter
    /\ released = [k \in Keys |-> 0]
    /\ amap = [k \in Keys |-> 0]

InitLife ==
    /\ NoTable
    /\ last = Last("none", 0, 0, 0, 0, ThisMap, FALSE, 0)

\* the outcomes of the allocations of one hashmap_NAME_new, and the name the
\* call is recorded under
AllocOutcomes ==
    { [malloc_ok |-> TRUE, calloc_ok |-> TRUE, op |-> "new"],
      [malloc_ok |-> FALSE, calloc_ok |-> TRUE, op |-> "new, malloc fails"],
      [malloc_ok |-> TRUE, calloc_ok |-> FALSE, op |-> "new, calloc fails"] }

\* map = hashmap_NAME_new(cap, gf, dtor, hf, cmp_fn), no table being held
New(cap, gf, dtor, hf, out) ==
    /\ map_ptr = "NULL" /\ last.ret # CRASH
    /\ \E r \in {hashmap_new(cap, out.malloc_ok, out.calloc_ok)} :
           /\ map_ptr' = r.ptr
           /\ Adopt(r.map)
           /\ IF r.ptr = "live"
              THEN grow_factor' = gf /\ destructor' = dtor /\ hash_fn' = hf
              ELSE UNCHANGED <<grow_factor, destructor, hash_fn>>
           /\ last' = Last(out.op, 0, 0, cap, IF r.ptr = "live" THEN 1 ELSE 0,
                           r.map, FALSE, 0)
    /\ UNCHANGED <<cmp, iter, released, amap>>

\* a call of op(NULL, ...) that the function's null check answers with ret
NullCall(op, key, value, new_capacity, ret) ==
    /\ map_ptr = "NULL" /\ last.ret # CRASH
    /\ last' = Last(op, key, value, new_capacity, ret, ThisMap, FALSE, 0)
    /\ UNCHANGED <<entries, capacity, count, amap, rest>>

\* if (!map) return 0;
InsertNull(key, value) == NullCall("insert", key, value, 0, 0)
\* if (!map) return NULL;
GetNull(key) == NullCall("get", key, 0, 0, NOTFOUND)
\* if (!map) return 0;
RemoveNull(key) == NullCall("remove", key, 0, 0, 0)
\* if (!map) return;
FreeNull == NullCall("free", 0, 0, 0, 1)
\* resize has no null check: it reads map->grow_factor through the null
\* pointer.  The behaviour is undefined: the process is killed, or the call
\* goes on with what it read and returns either result
ResizeNull(new_capacity) ==
    \E ret \in {CRASH, 0, 1} : NullCall("resize", 0, 0, new_capacity, ret)

NextLife ==
    \/ \E cap \in 1..MaxInitCap, gf \in GrowFactors, dtor \in BOOLEAN,
          hf \in HashFns, out \in AllocOutcomes : New(cap, gf, dtor, hf, out)
    \/ \E k \in Keys : Get(k)
    \/ IterBegin
    \/ IterNext
    \/ Free
    \/ \E k \in Keys, v \in Values : InsertNull(k, v)
    \/ \E k \in Keys : GetNull(k)
    \/ \E k \in Keys : RemoveNull(k)
    \/ FreeNull
    \/ \E n \in 1..MaxNewCap : ResizeNull(n)

SpecLife == InitLife /\ [][NextLife]_vars

(* ------------------- the default hash on its own ----------------------- *)
InitHash ==
    /\ NoTable
    /\ last = Last("none", 0, 0, 0, 0, ThisMap, FALSE, 0)

\* hash_str_key(key); the function is pure, one call per behaviour shows it
HashStr(key) ==
    /\ last.op = "none"
    /\ last' = Last("hash_str_key", key, 0, 0, hash_str_key(key), ThisMap,
                    FALSE, 0)
    /\ UNCHANGED <<entries, capacity, count, amap, rest>>

NextHash == \E key \in Strings : HashStr(key)

SpecHash == InitHash /\ [][NextHash]_vars

(* ------------------- hash_probe_distance on its own -------------------- *)
\* 32-bit hashes at both ends of the range and around the 16-bit carry
ProbeHashes ==
    {<<hi, lo>> : hi \in {0, 1, Half - 1},
                  lo \in (0..MaxProbeLo) \cup {Half - 1}}

\* hash_probe_distance(hash, index, capacity); the function is pure, one
\* call per behaviour shows it
ProbeDistance(hash, index, cap) ==
    /\ last.op = "none"
    /\ last' = Last("hash_probe_distance", hash, index, cap,
                    hash_probe_distance(hash, index, cap), ThisMap, FALSE, 0)
    /\ UNCHANGED <<entries, capacity, count, amap, rest>>

NextProbe ==
    \E hash \in ProbeHashes, cap \in 1..MaxProbeCap :
        \E index \in 0..(cap - 1) : ProbeDistance(hash, index, cap)

SpecProbe == InitHash /\ [][NextProbe]_vars

(* ------------------------------ helpers -------------------------------- *)
occupied(e) == {i \in DOMAIN e : e[i].status = OCCUPIED}

\* the multiset of the (key, value) pairs of the Occupied slots
pairs(e) ==
    LET ps == {<<e[i].key, e[i].value>> : i \in occupied(e)}
    IN  [p \in ps |->
            Cardinality({i \in occupied(e) : <<e[i].key, e[i].value>> = p})]

inserted == {k \in DOMAIN amap : amap[k] # 0}

\* the number of Occupied slots that hold the pair (key, value)
copies(e, key, value) ==
    Cardinality({i \in occupied(e) : e[i].key = key /\ e[i].value = value})

\* the slots the walk of insert visits from index on: the cyclic range up to
\* and including the first slot that is Empty or Tombstone (every slot when
\* there is none)
path(e, cap, index) ==
    LET free == {d \in 0..(cap - 1) : e[(index + d) % cap].status # OCCUPIED}
        stop == IF free = {} THEN cap - 1
                ELSE CHOOSE d \in free : \A d2 \in free : d <= d2
    IN  {(index + d) % cap : d \in 0..stop}

\* the number of Occupied slots that hold the entry x
held(e, x) == Cardinality({i \in occupied(e) : e[i] = x})

\* the slot array the inserts of the keys of S in ascending order build
\* from the array e of a table of capacity cap that does not resize
RECURSIVE ascending(_, _, _)
ascending(S, e, cap) ==
    IF S = {} THEN e
    ELSE LET key == CHOOSE k \in S : \A k2 \in S : k <= k2
         IN  ascending(S \ {key},
                       walk(e, cap, umod(hash32(key), cap), 0,
                            [key |-> key, value |-> 1 + (key % MaxValue),
                             status |-> OCCUPIED, hash |-> hash32(key)]),
                       cap)

\* the layout of a slot array up to the identity of the keys: per slot,
\* whether it is Occupied and, if so, the ideal index and the probe distance
\* of its entry
layout(e, cap) ==
    [i \in DOMAIN e |->
        IF e[i].status = OCCUPIED
        THEN <<umod(e[i].hash, cap), hash_probe_distance(e[i].hash, i, cap)>>
        ELSE <<>>]

\* the slots a probe for the entry of slot i passes before it reaches i:
\* the cyclic range from the entry's ideal index hash % capacity up to,
\* not including, i
before(e, cap, i) ==
    {(umod(e[i].hash, cap) + d) % cap :
        d \in 0..(hash_probe_distance(e[i].hash, i, cap) - 1)}

\* 32-bit unsigned arithmetic on four base-256 digits <<d0, d1, d2, d3>>, d0
\* the least significant: the arithmetic FNV-1a is stated in
Digits(n) ==
    <<n % 256, (n \div 256) % 256, (n \div 65536) % 256, n \div 16777216>>

DAdd(a, b) ==
    LET s0 == a[1] + b[1]
        s1 == a[2] + b[2] + (s0 \div 256)
        s2 == a[3] + b[3] + (s1 \div 256)
        s3 == a[4] + b[4] + (s2 \div 256)
    IN  <<s0 % 256, s1 % 256, s2 % 256, s3 % 256>>

\* a * b modulo 2^32
DMul(a, b) ==
    LET p0 == a[1] * b[1]
        p1 == a[1] * b[2] + a[2] * b[1] + (p0 \div 256)
        p2 == a[1] * b[3] + a[2] * b[2] + a[3] * b[1] + (p1 \div 256)
        p3 == a[1] * b[4] + a[2] * b[3] + a[3] * b[2] + a[4] * b[1]
                  + (p2 \div 256)
    IN  <<p0 % 256, p1 % 256, p2 % 256, p3 % 256>>

\* the bits set in a byte, and the byte with a given set of bits
BitsOf(n) == {i \in 0..7 : (n \div (2 ^ i)) % 2 = 1}
RECURSIVE ByteOf(_)
ByteOf(S) ==
    IF S = {} THEN 0
    ELSE LET i == CHOOSE x \in S : TRUE IN (2 ^ i) + ByteOf(S \ {i})

\* h XOR byte: the byte meets the least significant digit
DXor(h, byte) ==
    <<ByteOf((BitsOf(h[1]) \ BitsOf(byte)) \cup (BitsOf(byte) \ BitsOf(h[1]))),
      h[2], h[3], h[4]>>

\* the number millions * 10^6 + units
Dec(millions, units) ==
    DAdd(DMul(Digits(millions), Digits(1000000)), Digits(units))

\* FNV-1a as stated: from 2166136261, h := ((h XOR byte) * 16777619) mod 2^32
RECURSIVE Fnv1a(_, _, _)
Fnv1a(key, i, h) ==
    IF i > Len(key) THEN h
    ELSE Fnv1a(key, i + 1, DMul(DXor(h, key[i]), Dec(16, 777619)))

\* the digits of a uint32_t given in 16-bit halves
WordDigits(w) == <<w[2] % 256, w[2] \div 256, w[1] % 256, w[1] \div 256>>

\* w modulo n by long division over the base-256 digits of w, the most
\* significant first
DigitsMod(w, n) ==
    LET d == WordDigits(w)
    IN  ((((((d[4] % n) * 256 + d[3]) % n) * 256 + d[2]) % n) * 256 + d[1])
            % n

TypeOK ==
    /\ capacity >= 1
    /\ count \in Nat
    /\ DOMAIN entries = 0..(capacity - 1)

(* --------------- the key-owning variant (src/library.h) ---------------- *)
\* The table of library.h holds the caller's heap keys and frees them.  Its
\* load check, Robin Hood walk and probe distance read as those above; it
\* grows by capacity * 2 and compares keys with strcmp(...) == 0.  A key is
\* the pointer handed to insert; rel counts the free() calls on each key.
\* Its insert, resize and resize's loop return [ret, map, allocs, rel].
OwnRet(r, m, allocs, rel) ==
    [ret |-> r, map |-> m, allocs |-> allocs, rel |-> rel]

\* free(entries[i].key) for every Occupied slot i of e
free_keys(e, rel) ==
    [k \in DOMAIN rel |->
        rel[k] + Cardinality({i \in occupied(e) : e[i].key = k})]

RECURSIVE own_insert(_, _, _, _, _), own_resize(_, _, _, _)
RECURSIVE own_reinsert(_, _, _, _, _)

\* hashmap_insert(map, key, value, hash_fn)
own_insert(m, key, value, allocs, rel) ==
    LET hash == hash32(key)
        new_entry == [key |-> key, value |-> value,
                      status |-> OCCUPIED, hash |-> hash]
        place(r) ==
            IF r.ret # 1 THEN r
            ELSE IF ~walk_exits(r.map.entries, r.map.capacity)
            THEN OwnRet(DIVERGE, r.map, r.allocs, r.rel)
            ELSE OwnRet(1,
                        Map(walk(r.map.entries, r.map.capacity,
                                 umod(hash, r.map.capacity), 0, new_entry),
                            r.map.capacity, r.map.count + 1),
                        r.allocs, r.rel)
    IN  IF over_load(m.count, m.capacity)
        THEN Once(place, own_resize(m, m.capacity * 2, allocs, rel))
        ELSE place(OwnRet(1, m, allocs, rel))

\* the first for loop of hashmap_resize from slot i of the old table m on
own_reinsert(m, new_map, i, allocs, rel) ==
    IF i >= m.capacity THEN OwnRet(1, new_map, allocs, rel)
    ELSE IF m.entries[i].status # OCCUPIED
    THEN own_reinsert(m, new_map, i + 1, allocs, rel)
    ELSE LET step(r) ==
                 IF r.ret = DIVERGE
                 THEN OwnRet(DIVERGE, new_map, r.allocs, r.rel)
                 ELSE IF r.ret = 0
                 \* hashmap_free(new_map) frees the keys moved so far
                 THEN OwnRet(0, new_map, r.allocs,
                             free_keys(new_map.entries, r.rel))
                 ELSE own_reinsert(m, r.map, i + 1, r.allocs, r.rel)
         IN  Once(step, own_insert(new_map, m.entries[i].key,
                                   m.entries[i].value, allocs, rel))

\* hashmap_resize(map, new_capacity)
own_resize(m, new_capacity, allocs, rel) ==
    LET adopt(r) ==
            IF r.ret # 1 THEN OwnRet(r.ret, m, r.allocs, r.rel)
            \* the second for loop frees the key of every Occupied old slot
            ELSE OwnRet(1, r.map, r.allocs, free_keys(m.entries, r.rel))
    IN  IF ~new_ok(allocs) THEN OwnRet(0, m, 0, rel)
        ELSE Once(adopt, own_reinsert(m, Map(calloc_entries(new_capacity),
                                             new_capacity, 0),
                                      0, Take(allocs, 1), rel))

\* the scan of hashmap_remove; strcmp on a key that has been freed reads
\* released memory, its result is whatever uaf says
RECURSIVE own_probe(_, _, _, _, _, _, _)
own_probe(m, hash, key, index, steps, rel, uaf) ==
    IF steps >= m.capacity THEN DIVERGE
    ELSE IF m.entries[index].status = EMPTY THEN NOTFOUND
    ELSE IF /\ m.entries[index].status = OCCUPIED
            /\ m.entries[index].hash = hash
            /\ IF rel[m.entries[index].key] > 0 THEN uaf
               ELSE m.entries[index].key = key
         THEN index
    ELSE own_probe(m, hash, key, (index + 1) % m.capacity, steps + 1, rel,
                   uaf)

\* hashmap_remove(map, key, hash_fn): [ret, map, rel]
own_remove(m, key, rel, uaf) ==
    LET at == own_probe(m, hash32(key), key, umod(hash32(key), m.capacity),
                        0, rel, uaf)
    IN  IF at = DIVERGE THEN [ret |-> DIVERGE, map |-> m, rel |-> rel]
        ELSE IF at = NOTFOUND THEN [ret |-> 0, map |-> m, rel |-> rel]
        ELSE [ret |-> 1,
              map |-> Map([m.entries EXCEPT ![at].key = 0,
                                            ![at].status = TOMBSTONE],
                          m.capacity, m.count - 1),
              rel |-> [rel EXCEPT ![m.entries[at].key] = @ + 1]]

\* hashmap_new(capacity, el_size, grow_factor); the key-owning table has no
\* destructor, and its grow_factor field is never read
InitOwn ==
    /\ capacity \in 1..MaxInitCap
    /\ entries = calloc_entries(capacity)
    /\ count = 0
    /\ grow_factor = <<2, 1>>
    /\ hash_fn \in HashFns
    /\ destructor = FALSE
    /\ cmp = "equal"
    /\ map_ptr = "live"
    /\ iter = NoIter
    /\ released = [k \in Keys |-> 0]
    /\ last = Last("new", 0, 0, 0, 1, Map(entries, capacity, 0), FALSE, 0)
    /\ amap = [k \in Keys |-> 0]

\* freeing a key a second time is undefined behaviour: the model follows
\* the program up to its first double free and no further
own_running == running /\ \A k \in Keys : released[k] <= 1

\* hashmap_insert of a key the caller has not handed over before
InsertOwn(key, value, allocs) ==
    /\ own_running
    /\ amap[key] = 0
    /\ count < MaxCount
    /\ \E r \in {own_insert(ThisMap, key, value, allocs, released)} :
           /\ Adopt(r.map)
           /\ released' = r.rel
           /\ last' = Last("insert", key, value, 0, r.ret, ThisMap, FALSE, 0)
           /\ amap' = IF r.ret = 1 THEN [amap EXCEPT ![key] = value] ELSE amap
    /\ UNCHANGED <<grow_factor, hash_fn, destructor, cmp, map_ptr, iter>>

RemoveOwn(key, uaf) ==
    /\ own_running
    /\ tombs(entries) < MaxTombs
    /\ \E r \in {own_remove(ThisMap, key, released, uaf)} :
           /\ Adopt(r.map)
           /\ released' = r.rel
           /\ last' = Last("remove", key, 0, 0, r.ret, ThisMap, FALSE, 0)
    /\ UNCHANGED <<grow_factor, hash_fn, destructor, cmp, map_ptr, iter,
                   amap>>

ResizeOwn(new_capacity, allocs) ==
    /\ own_running
    /\ \E r \in {own_resize(ThisMap, new_capacity, allocs, released)} :
           /\ Adopt(r.map)
           /\ released' = r.rel
           /\ last' = Last("resize", 0, 0, new_capacity, r.ret, ThisMap,
                           r.ret = 1, 0)
    /\ UNCHANGED <<grow_factor, hash_fn, destructor, cmp, map_ptr, iter,
                   amap>>

\* hashmap_free(map)
FreeOwn ==
    /\ own_running
    /\ map_ptr' = "freed"
    /\ released' = free_keys(entries, released)
    /\ last' = Last("free", 0, 0, 0, 1, ThisMap, FALSE, 0)
    /\ UNCHANGED <<entries, capacity, count, grow_factor, hash_fn, destructor,
                   cmp, iter, amap>>

NextOwn ==
    \/ \E k \in Keys, v \in Values, a \in InsertAllocChoices :
           InsertOwn(k, v, a)
    \/ \E k \in Keys, uaf \in BOOLEAN : RemoveOwn(k, uaf)
    \/ \E n \in 1..MaxNewCap, a \in AllocChoices : ResizeOwn(n, a)
    \/ FreeOwn

SpecOwn == InitOwn /\ [][NextOwn]_vars

(* ------------------------------- claims -------------------------------- *)
\* C1: after any sequence of Inserts of pairwise distinct keys on a table with
\* grow_factor 2.0, count is the number of keys inserted and Get of every
\* inserted key returns the value inserted for it, resizes included.
C1_DistinctInserts ==
    grow_factor = <<2, 1>> =>
        /\ count = Cardinality(inserted)
        /\ \A k \in inserted : get(ThisMap, k) = amap[k]

\* three keys inserted, the third by an Insert that resized, and one of them
\* sits off its ideal bucket
C1_Witness ==
    /\ grow_factor = <<2, 1>>
    /\ last.op = "insert" /\ last.ret = 1 /\ last.resized
    /\ Cardinality(inserted) = 3
    /\ \E i \in occupied(entries) :
           hash_probe_distance(entries[i].hash, i, capacity) > 0

\* C2: a successful Insert(k, v) followed at once by Get(k) returns v, also
\* when k was present before the Insert.
C2_InsertThenGet ==
    (last.op = "insert" /\ last.ret = 1) => get(ThisMap, last.key) = last.value

\* C3: after a Remove(k) that found k, Get(k) returns NotFound.
C3_RemoveThenGet ==
    (last.op = "remove" /\ last.ret = 1) => get(ThisMap, last.key) = NOTFOUND

\* C4: Get and Remove return for every key in every reachable table state.
C4_GetRemoveTerminate ==
    last.op \in {"get", "remove"} => last.ret # DIVERGE

\* C5: Insert returns (success or failure) in every reachable table state,
\* for every grow_factor > 1.0.
C5_InsertTerminates ==
    last.op = "insert" => last.ret # DIVERGE

\* C6: after a successful Insert the load factor is at most 0.9, for every
\* grow_factor > 1.0.
C6_LoadFactor ==
    (last.op = "insert" /\ last.ret = 1) => 10 * count <= 9 * capacity

\* C7: no two Occupied slots hold equal keys.
C7_UniqueKeys ==
    \A i, j \in occupied(entries) :
        cmp_fn(entries[i].key, entries[j].key) => i = j

\* C8: count is the number of Occupied slots, and so count <= capacity.
C8_CountIsOccupied ==
    /\ count = Cardinality(occupied(entries))
    /\ count <= capacity

\* an Insert has just reused a Tombstone while other entries are Occupied
C8_Witness ==
    /\ last.op = "insert" /\ last.ret = 1 /\ ~last.resized
    /\ tombs(entries) < last.pretombs
    /\ count >= 2

\* C9: a successful Insert adds exactly 1 to count, a Remove that finds the
\* key subtracts exactly 1, a failed Insert and a not-found Remove leave count
\* as it was.
C9_CountSteps ==
    /\ (last.op = "insert" /\ last.ret = 1) => count = last.precount + 1
    /\ (last.op = "remove" /\ last.ret = 1) => count = last.precount - 1
    /\ (last.op \in {"insert", "remove"} /\ last.ret = 0)
           => count = last.precount

\* an Insert has just failed on a table that holds an entry and a Tombstone
C9_Witness ==
    /\ last.op = "insert" /\ last.ret = 0
    /\ count >= 1 /\ tombs(entries) >= 1

\* C10: a successful Resize with new_capacity >= count leaves the multiset of
\* Occupied (key, value) pairs and count as they were, and every key that Get
\* found before is found with the same value after; the same for the resize
\* an Insert triggers.
C10_ResizePreserves ==
    [][/\ (last'.op = "resize" /\ last'.ret = 1
              /\ last'.new_capacity >= count)
           => /\ pairs(entries') = pairs(entries)
              /\ count' = count
              /\ \A k \in Keys : get(ThisMap, k) >= 0
                     => get(ThisMap, k)' = get(ThisMap, k)
       /\ (last'.op = "insert" /\ last'.resized)
           => \E r \in {resize(ThisMap, grown(capacity), NoFail)} :
                 /\ r.ret = 1
                 /\ pairs(r.map.entries) = pairs(entries)
                 /\ r.map.count = count
                 /\ \A k \in Keys : get(ThisMap, k) >= 0
                        => get(r.map, k) = get(ThisMap, k)
      ]_vars

\* C11: an iterator run to exhaustion over a table that was not mutated has
\* returned exactly count entries, every one Occupied, every Occupied slot
\* once, in strictly ascending slot order; before exhaustion what it has
\* returned is Occupied and strictly ascending.
C11_IterVisitsAll ==
    iter.map = "live" =>
        /\ \A n \in 1..Len(iter.seen) :
               /\ entries[iter.seen[n]].status = OCCUPIED
               /\ n > 1 => iter.seen[n - 1] < iter.seen[n]
        /\ (last.op = "iter_next" /\ last.ret = NOTFOUND)
               => /\ Len(iter.seen) = count
                  /\ \A i \in occupied(entries) :
                         Cardinality({n \in 1..Len(iter.seen) :
                                         iter.seen[n] = i}) = 1

\* an exhausted iterator that returned two entries with a Tombstone between
\* them and an Empty slot after them
C11_Witness ==
    /\ iter.map = "live" /\ last.op = "iter_next" /\ last.ret = NOTFOUND
    /\ Len(iter.seen) = 2
    /\ \E t \in iter.seen[1]..iter.seen[2] : entries[t].status = TOMBSTONE
    /\ \E i \in DOMAIN entries : i > iter.seen[2] /\ entries[i].status = EMPTY

\* C12: a Resize or an Insert that returns failure (an allocation failed: that
\* of the new table, or one inside the reinsertion of an old entry) leaves
\* the slot array, capacity and count exactly as they were before the call,
\* and the key of the failed Insert is no more retrievable than before.
C12_FailureLeavesTable ==
    [][(last'.op \in {"insert", "resize"} /\ last'.ret = 0)
           => /\ entries' = entries
              /\ capacity' = capacity
              /\ count' = count
              /\ \A k \in Keys :
                     (last'.op = "insert" /\ last'.key = k)
                         => get(ThisMap, k)' = get(ThisMap, k)
      ]_vars

\* a Resize of a table with two entries has failed inside the reinsertion,
\* after the new table was allocated and one entry was moved into it
C12_Witness ==
    /\ last.op = "resize" /\ last.ret = 0 /\ last.dtor = 1
    /\ last.new_capacity = 2
    /\ count = 2

\* C13: the destructor is called exactly once by Destroy and by no other
\* operation, a failed Resize and a failed Insert included.
C13_DestructorOnlyByFree ==
    /\ last.op = "free" => last.dtor = 1
    /\ last.op # "free" => last.dtor = 0

\* C14: a Remove(k) that returns leaves the result of Get(k') as it was for
\* every key k' other than k, and an Insert that reuses a Tombstone leaves
\* every other key that Get did not find not found.
C14_RemoveFrame ==
    [][/\ (last'.op = "remove" /\ last'.ret \in {0, 1})
           => \A k \in Keys :
                  k # last'.key => get(ThisMap, k)' = get(ThisMap, k)
       /\ (last'.op = "insert" /\ last'.ret = 1 /\ ~last'.resized
              /\ tombs(entries') < tombs(entries))
           => \A k \in Keys :
                  (k # last'.key /\ get(ThisMap, k) = NOTFOUND)
                      => get(ThisMap, k)' = NOTFOUND
      ]_vars

\* a Remove has just left a Tombstone on the probe chain of a key that is
\* still found, between that key's bucket and its slot
C14_Witness ==
    /\ last.op = "remove" /\ last.ret = 1
    /\ \E i \in occupied(entries), t \in DOMAIN entries :
           /\ entries[t].status = TOMBSTONE
           /\ hash_probe_distance(entries[i].hash, t, capacity)
                  < hash_probe_distance(entries[i].hash, i, capacity)
           /\ get(ThisMap, entries[i].key) = entries[i].value

\* C20: hash_str_key returns the 32-bit FNV-1a hash of its byte string: from
\* 2166136261, h := ((h XOR byte) * 16777619) mod 2^32 for each byte in order;
\* hash_str_key("") = 2166136261.
C20_HashStrIsFnv1a ==
    last.op = "hash_str_key" =>
        /\ WordDigits(last.ret) = Fnv1a(last.key, 1, Dec(2166, 136261))
        /\ last.key = <<>> => WordDigits(last.ret) = Dec(2166, 136261)

\* a string of the greatest length that holds a byte above 127 has been
\* hashed to a value of 2^31 or more
C20_Witness ==
    /\ last.op = "hash_str_key"
    /\ Len(last.key) = MaxStrLen
    /\ \E i \in 1..Len(last.key) : last.key[i] > 127
    /\ last.ret[1] >= 32768

\* C15: in the table of the header's usage example (default string hash,
\* cmp_fn = strcmp) Get("apple") after Insert("apple", 42) returns 42, and Get
\* of a key never inserted returns NULL.
C15_UsageExample ==
    /\ (last.op = "get" /\ last.key = Apple /\ amap[Apple] = ExampleValue)
           => last.ret = ExampleValue
    /\ (last.op = "get" /\ amap[last.key] = 0) => last.ret = NOTFOUND

\* C16: a successful Insert has resized exactly when count + 1 > 0.9 *
\* capacity held before it, and then capacity is floor(old capacity *
\* grow_factor); otherwise, and after a failed Insert, capacity is unchanged.
\* With grow_factor 2.0 at capacity 4 the inserts up to the third distinct key
\* leave capacity 4 and the fourth makes it 8 with all four keys retrievable.
C16_ResizeThreshold ==
    /\ (last.op = "insert" /\ last.ret = 1)
           => /\ last.resized <=> 10 * (last.precount + 1) > 9 * last.precap
              /\ capacity =
                     IF last.resized
                     THEN (last.precap * grow_factor[1]) \div grow_factor[2]
                     ELSE last.precap
    /\ (last.op = "insert" /\ last.ret = 0) => capacity = last.precap
    /\ (last.op = "insert" /\ last.ret = 1 /\ grow_factor = <<2, 1>>
           /\ last.precap = 4)
           => /\ last.precount < 3 => capacity = 4
              /\ last.precount = 3
                     => /\ capacity = 8
                        /\ Cardinality(inserted) = 4
                        /\ \A k \in inserted : get(ThisMap, k) = amap[k]

\* the fourth distinct key has just been inserted into a table of capacity 4
\* with grow_factor 2.0
C16_Witness ==
    /\ last.op = "insert" /\ last.ret = 1 /\ last.resized
    /\ grow_factor = <<2, 1>>
    /\ last.precap = 4 /\ last.precount = 3
    /\ Cardinality(inserted) = 4

\* C17: Insert, Get, Remove, Resize, Destroy and IterNext given a null table
\* return failure or not-found, dereference nothing and change nothing.
C17_NullTable ==
    map_ptr = "NULL" =>
        /\ last.op \in {"insert", "remove", "resize"} => last.ret = 0
        /\ last.op \in {"get", "iter_next"} => last.ret = NOTFOUND
        /\ last.op = "free" => last.dtor = 0
        /\ last.op \in {"insert", "remove", "resize", "get", "iter_next",
                         "free"}
               => /\ entries = <<>> /\ capacity = 0 /\ count = 0
                  /\ iter.seen = <<>>

\* C19: a Construct that succeeds yields a table of the requested capacity
\* with count 0 and every slot Empty, Get of any key on it returns NotFound
\* and a fresh iterator is exhausted at once; a Construct whose malloc or
\* calloc fails returns failure and leaves no table.
C19_Construct ==
    /\ last.op = "new"
           => /\ last.ret = 1 /\ map_ptr = "live"
              /\ capacity = last.new_capacity
    /\ map_ptr = "live"
           => /\ count = 0
              /\ DOMAIN entries = 0..(capacity - 1)
              /\ \A i \in DOMAIN entries : entries[i].status = EMPTY
              /\ last.op = "get" => last.ret = NOTFOUND
              /\ last.op = "iter_next"
                     => last.ret = NOTFOUND /\ iter.seen = <<>>
    /\ last.op \in {"new, malloc fails", "new, calloc fails"}
           => last.ret = 0 /\ map_ptr = "NULL"

\* an iterator begun on a fresh table of the greatest capacity has passed
\* over every slot and returned NULL
C19_Witness ==
    /\ map_ptr = "live" /\ iter.map = "live"
    /\ capacity = MaxInitCap
    /\ last.op = "iter_next" /\ last.ret = NOTFOUND
    /\ iter.index = capacity

\* C18: in the key-owning variant no key is released twice, no Occupied slot
\* of the live table refers to a released key, and once the table is
\* destroyed every key a successful Insert took has been released exactly
\* once (at its Remove or at Destroy).
C18_KeysReleasedOnce ==
    /\ \A k \in Keys : released[k] <= 1
    /\ map_ptr = "live"
           => \A i \in occupied(entries) : released[entries[i].key] = 0
    /\ map_ptr = "freed"
           => \A k \in Keys : released[k] = IF amap[k] # 0 THEN 1 ELSE 0

\* C21: along every sequence of Inserts of keys that are not present at the
\* time and of Removes, with the resizes the Inserts trigger, the table
\* refines the abstract map: a Get that returns gives the value last
\* inserted for a key the abstract map holds and NotFound for any other
\* key, and count is the size of the abstract map
C21_RefinesMap ==
    running =>
        /\ \A k \in Keys :
               \/ get(ThisMap, k) = DIVERGE
               \/ get(ThisMap, k) = IF amap[k] # 0 THEN amap[k] ELSE NOTFOUND
        /\ count = Cardinality(inserted)
        /\ (last.op = "get" /\ last.ret # DIVERGE) =>
               last.ret = IF amap[last.key] # 0 THEN amap[last.key]
                          ELSE NOTFOUND

\* after a Remove, Get has returned the value of a key whose probe sequence
\* starts on the Tombstone the Remove left, in a table of two keys or more
C21_Witness ==
    /\ last.op = "get"
    /\ last.ret = amap[last.key]
    /\ last.ret = 2
    /\ entries[umod(hash_fn[last.key][2], capacity)].status = TOMBSTONE
    /\ count >= 2

\* C22: in every reachable state, no slot between the ideal index of an
\* Occupied slot's entry and that slot is Empty, so the scan of Get and
\* Remove reaches the slot
C22_NoEmptyBefore ==
    \A i \in occupied(entries) :
        \A j \in before(entries, capacity, i) : entries[j].status # EMPTY

\* an entry lies two slots or more after its ideal index, a Tombstone lies
\* between the two, and another slot of the table is Empty
C22_Witness ==
    \E i \in occupied(entries) :
        /\ Cardinality(before(entries, capacity, i)) >= 2
        /\ \E j \in before(entries, capacity, i) :
               entries[j].status = TOMBSTONE
        /\ \E j \in DOMAIN entries : entries[j].status = EMPTY

\* C23: in every reachable state at least one slot is Empty
C23_SomeEmpty ==
    \E i \in DOMAIN entries : entries[i].status = EMPTY

\* C24: after a Remove that finds its key, the slot it turned from Occupied
\* into Tombstone holds neither the key nor the value: both fields are
\* cleared
C24_TombstoneCleared ==
    [][(last'.op = "remove" /\ last'.ret = 1) =>
          \A i \in DOMAIN entries :
              (entries[i].status = OCCUPIED
                   /\ entries'[i].status = TOMBSTONE) =>
                  /\ entries'[i].key = ZeroEntry.key
                  /\ entries'[i].value = ZeroEntry.value]_vars

C26_ResizeExact ==
    (last.op = "resize" /\ last.ret = 1
         /\ last.new_capacity >= last.precount) =>
        capacity = last.new_capacity

\* C26 as the code has it: after a successful explicit Resize(new_capacity)
\* with new_capacity at least count, capacity is new_capacity when count is
\* at most 0.9 * new_capacity; when count is more, a reinsertion into the
\* new table resizes that table in turn and capacity ends at new_capacity
\* or above
C26_ResizeExactUnderLoad ==
    (last.op = "resize" /\ last.ret = 1
         /\ last.new_capacity >= last.precount) =>
        /\ capacity >= last.new_capacity
        /\ \/ 10 * last.precount > 9 * last.new_capacity
           \/ capacity = last.new_capacity

\* a Resize to fewer slots than the table had, with an entry to reinsert and
\* a Tombstone to drop, has succeeded and capacity is the one asked for
C26_Witness ==
    /\ last.op = "resize"
    /\ last.ret = 1
    /\ last.precount = 1
    /\ last.pretombs = 1
    /\ last.new_capacity = 2
    /\ last.precap > 2
    /\ capacity = 2

\* C27: in a step that does not replace the slot array by a resize, a
\* slot's status stays or goes from Empty to Occupied (Insert), from
\* Occupied to Tombstone (Remove only) or from Tombstone to Occupied
\* (Insert): no Occupied or Tombstone slot becomes Empty
C27_StatusTransitions ==
    [][(~last'.resized /\ last'.op # "resize") =>
          /\ DOMAIN entries' = DOMAIN entries
          /\ \A i \in DOMAIN entries :
                 \/ entries'[i].status = entries[i].status
                 \/ /\ entries[i].status = EMPTY
                    /\ entries'[i].status = OCCUPIED
                    /\ last'.op = "insert"
                 \/ /\ entries[i].status = OCCUPIED
                    /\ entries'[i].status = TOMBSTONE
                    /\ last'.op = "remove"
                 \/ /\ entries[i].status = TOMBSTONE
                    /\ entries'[i].status = OCCUPIED
                    /\ last'.op = "insert"]_vars

\* an Insert that did not resize has taken the slot a Remove had left as a
\* Tombstone, in a table that holds another entry
C27_Witness ==
    /\ last.op = "insert"
    /\ last.ret = 1
    /\ ~last.resized
    /\ last.pretombs = 1
    /\ tombs(entries) = 0
    /\ count >= 2

\* C28: in the table a successful Resize has built, no slot is Tombstone
\* and as many slots are Occupied as in the old array, after an explicit
\* Resize and after the resize of an Insert, before the Insert places the
\* pending entry
C28_ResizeDropsTombstones ==
    [][/\ (last'.op = "resize" /\ last'.ret = 1) =>
              /\ tombs(entries') = 0
              /\ Cardinality(occupied(entries'))
                     = Cardinality(occupied(entries))
       /\ (last'.op = "insert" /\ last'.resized) =>
              \A r \in {resize(ThisMap, grown(capacity), NoFail)} :
                  /\ r.ret = 1
                  /\ tombs(r.map.entries) = 0
                  /\ Cardinality(occupied(r.map.entries))
                         = Cardinality(occupied(entries))
                  /\ last'.ret = 1 =>
                         /\ tombs(entries') = 0
                         /\ capacity' = r.map.capacity]_vars

\* an explicit Resize has succeeded on a table with a Tombstone and two
\* entries
C28_Witness ==
    /\ last.op = "resize"
    /\ last.ret = 1
    /\ last.pretombs = 1
    /\ last.precount = 2
    /\ count = 2
    /\ tombs(entries) = 0

\* C29: in every reachable state the cached hash of every Occupied slot is
\* hash_fn of the slot's key truncated to 32 bits
C29_CachedHash ==
    \A i \in occupied(entries) :
        /\ entries[i].key \in Keys
        /\ entries[i].hash = hash32(entries[i].key)

\* after an Insert, an entry lies after its ideal index behind an entry of
\* another hash, in a table whose hash_fn has results above 32 bits
C29_Witness ==
    /\ last.op = "insert"
    /\ last.ret = 1
    /\ \E k \in Keys : hash_fn[k][1] # 0
    /\ \E i \in occupied(entries) :
           \E j \in before(entries, capacity, i) :
               /\ entries[j].status = OCCUPIED
               /\ entries[j].hash # entries[i].hash

\* C30: the inserts of a set of distinct keys into an empty table of a
\* fixed capacity that takes them without a resize give the same layout in
\* every order: the same Occupied slots, each with the same ideal index and
\* probe distance (every order gives the layout of the ascending order)
C30_OrderIndependent ==
    running =>
        layout(entries, capacity)
            = layout(ascending(inserted, calloc_entries(capacity), capacity),
                     capacity)

\* three keys or more are in the table and the key inserted last lies on the
\* probe path of a larger key inserted before it: its insert has displaced
\* an entry
C30_Witness ==
    /\ last.op = "insert"
    /\ count >= 3
    /\ \E i, j \in occupied(entries) :
           /\ entries[i].key = last.key
           /\ entries[j].key > last.key
           /\ i \in before(entries, capacity, j)
           /\ umod(entries[i].hash, capacity)
                  # umod(entries[j].hash, capacity)

\* C31: in a table that has seen Inserts only, with the resizes they
\* trigger, the probe distance of an Occupied slot whose cyclic predecessor
\* is Occupied is at most the predecessor's probe distance plus one
C31_RobinHood ==
    \A i \in occupied(entries) :
        LET succ == (i + 1) % capacity
        IN  entries[succ].status = OCCUPIED =>
                hash_probe_distance(entries[succ].hash, succ, capacity)
                    <= hash_probe_distance(entries[i].hash, i, capacity) + 1

\* after a resize, an Insert has put its key in front of an entry of another
\* bucket that now lies two slots or more after its ideal index
C31_Witness ==
    /\ last.op = "insert"
    /\ last.ret = 1
    /\ capacity > last.precap
    /\ \E i, j \in occupied(entries) :
           /\ entries[i].key = last.key
           /\ j = (i + 1) % capacity
           /\ umod(entries[i].hash, capacity)
                  # umod(entries[j].hash, capacity)
           /\ hash_probe_distance(entries[j].hash, j, capacity) >= 2

\* C32: an Insert that does not trigger a resize changes only slots of the
\* cyclic range from hash % capacity up to and including the first Empty or
\* Tombstone slot; capacity is unchanged, and every entry that was Occupied
\* is still Occupied with its key, value and hash, in its slot or further on
\* within that range
C32_InsertFrame ==
    [][\A k \in Keys :
          (/\ last'.op = "insert"
           /\ last'.key = k
           /\ ~over_load(count, capacity)) =>
              LET p == path(entries, capacity, umod(hash32(k), capacity))
              IN  /\ capacity' = capacity
                  /\ ~last'.resized
                  /\ \A i \in DOMAIN entries \ p : entries'[i] = entries[i]
                  /\ \A i \in occupied(entries) :
                         /\ held(entries', entries[i])
                                >= held(entries, entries[i])
                         /\ \/ entries'[i] = entries[i]
                            \/ /\ i \in p
                               /\ \E j \in p :
                                      /\ entries'[j] = entries[i]
                                      /\ hash_probe_distance(
                                             entries[i].hash, j, capacity)
                                          > hash_probe_distance(
                                                entries[i].hash, i, capacity)
              ]_vars

\* an Insert that did not resize, into a table without Tombstones, has put
\* a key that no other slot holds after its ideal index, into the ideal slot
\* of an entry that now lies in the next slot: the walk has displaced that
\* entry
C32_Witness ==
    /\ last.op = "insert"
    /\ last.ret = 1
    /\ ~last.resized
    /\ last.pretombs = 0
    /\ tombs(entries) = 0
    /\ \E i, j \in occupied(entries) :
           /\ entries[i].key = last.key
           /\ \A i2 \in occupied(entries) \ {i} : entries[i2].key # last.key
           /\ hash_probe_distance(entries[i].hash, i, capacity) >= 1
           /\ j = (i + 1) % capacity
           /\ umod(entries[j].hash, capacity) = i

\* C33: a Get, whatever it returns, and a Remove that reports not-found
\* leave every slot (status, key, value, hash), capacity and count as they
\* were
C33_GetRemoveFrame ==
    [][(\/ last'.op = "get"
        \/ last'.op = "remove" /\ last'.ret = 0) =>
           /\ entries' = entries
           /\ capacity' = capacity
           /\ count' = count]_vars

\* a Remove has reported not-found after a scan that started on an Occupied
\* slot, in a table of two entries or more
C33_Witness ==
    /\ last.op = "remove"
    /\ last.ret = 0
    /\ entries[umod(hash32(last.key), capacity)].status = OCCUPIED
    /\ count >= 2
    /\ count = last.precount

\* C34: Destroy on a table with a destructor calls the destructor before it
\* releases the slot array: the destructor sees the slot array, capacity,
\* count and every Occupied entry as they were; Destroy on a table without
\* a destructor calls nothing and only releases the array and the table
C34_DestructorFirst ==
    [][/\ map_ptr' = "destructor" =>
              /\ destructor
              /\ map_ptr = "live"
              /\ last'.dtor = 1
              /\ entries' = entries
              /\ capacity' = capacity
              /\ count' = count
              /\ DOMAIN entries' = 0..(capacity - 1)
              /\ Cardinality(occupied(entries')) = count
              /\ \A k \in inserted : copies(entries', k, amap[k]) = 1
       /\ (map_ptr' = "entries_freed" /\ map_ptr # "entries_freed") =>
              /\ map_ptr = IF destructor THEN "destructor" ELSE "live"
              /\ last'.dtor = 0
       /\ (map_ptr' = "freed" /\ map_ptr # "freed") =>
              /\ map_ptr = "entries_freed"
              /\ last'.dtor = 0]_vars

\* the destructor is running on a table of two entries and a Tombstone
C34_Witness ==
    /\ map_ptr = "destructor"
    /\ last.op = "free"
    /\ last.dtor = 1
    /\ count = 2
    /\ tombs(entries) = 1

\* C35: the cursor of an iterator starts at 0, never decreases and never
\* exceeds capacity; an IterNext that returns an entry leaves the cursor at
\* the entry's index plus one; after an IterNext has returned exhausted,
\* the next IterNext on the iterator returns exhausted too
C35_Cursor ==
    [][/\ last'.op = "iter_begin" => iter'.index = 0
       /\ last'.op = "iter_next" =>
              /\ iter'.index >= iter.index
              /\ iter'.index <= capacity
              /\ last'.ret # NOTFOUND =>
                     /\ last'.ret >= iter.index
                     /\ entries[last'.ret].status = OCCUPIED
                     /\ iter'.index = last'.ret + 1
              /\ last'.ret = NOTFOUND =>
                     iter_next(iter', ThisMap')
                         = [ret |-> NOTFOUND, index |-> iter'.index]]_vars

\* an iterator has returned two entries of a table with a Tombstone and
\* then exhausted, its cursor at capacity
C35_Witness ==
    /\ last.op = "iter_next"
    /\ last.ret = NOTFOUND
    /\ Len(iter.seen) = 2
    /\ tombs(entries) = 1
    /\ iter.index = capacity

\* C36: for every capacity of 1 or more, every index below capacity and
\* every 32-bit hash, hash_probe_distance(hash, index, capacity) is the one
\* d with 0 <= d < capacity and (hash % capacity + d) % capacity = index,
\* and it is 0 exactly when index is hash % capacity
C36_ProbeDistance ==
    last.op = "hash_probe_distance" =>
        LET cap == last.new_capacity
            index == last.value
            ideal == DigitsMod(last.key, cap)
        IN  /\ last.ret \in 0..(cap - 1)
            /\ (ideal + last.ret) % cap = index
            /\ \A d \in 0..(cap - 1) :
                   (ideal + d) % cap = index => d = last.ret
            /\ last.ret = 0 <=> index = ideal

\* the distance of an index below the ideal index of a hash of 2^31 or more
\* in the largest table: the distance wraps around the end of the array
C36_Witness ==
    /\ last.op = "hash_probe_distance"
    /\ last.new_capacity = MaxProbeCap
    /\ last.key[1] >= 32768
    /\ last.value < DigitsMod(last.key, last.new_capacity)
    /\ last.ret = last.value + MaxProbeCap
                      - DigitsMod(last.key, last.new_capacity)
    /\ last.ret >= 2

====
